---- MODULE Spec2Model ----
(***************************************************************************)
(* Model of the two debugging tools of the repository:                     *)
(*   tools/pcap_summary.py  classic-PCAP reader, Ethernet/ARP/IPv4/TCP/UDP *)
(*                          decoders and the summarizer of main()          *)
(*   tools/uart-filter.py   escape decoder, debug-putc extractor and the   *)
(*                          include/exclude filter of main()               *)
(* Byte strings are sequences of numbers 0..255, text is a sequence of     *)
(* one-character strings.  A file is revealed read by read: every f.read   *)
(* (every line of the text handle) is a choice among the contents the file *)
(* may hold at that place.                                                 *)
(***************************************************************************)
EXTENDS Integers, Sequences, FiniteSets, TLC

VARIABLES
    \* ---- pcap_summary.py ----
    pc,         \* position of main: "start", "open", "loop", "done", "aborted"
    f_open,     \* the file object of iter_pcap's `with open(...)` is open
    endian,     \* "<" or ">" once the magic was read, "?" before
    err,        \* the SystemExit message, "" while none was raised
    last,       \* what the latest read of the file returned: .at the place
                \* ("global" or "record" header), .ph the header bytes read,
                \* .body the bytes the file holds after a record header
    pkt,        \* pkt.data of the current loop iteration
    consumed,   \* the packets iter_pcap has yielded so far, in order
    runs,       \* runs[a]: main's locals in the run with the arguments a, all
                \* runs reading the same file: .counts the nine counters,
                \* .printed the detail lines printed so far, .out its stdout
    \* ---- uart-filter.py ----
    u_pc,       \* position of main: "run", "done"
    u_args,     \* the parsed command line
    handle_open,\* the input handle is open
    u_read,     \* the raw lines read from the handle so far
    buffer,     \* buffer of _iter_debug_stream
    stdout,     \* the chunks written with sys.stdout.write, in order
    \* ---- calls of the pure functions ----
    fn_in,      \* argument of the call
    fn_out      \* its result, "pending" before the call

pcapVars == <<pc, f_open, endian, err, last, pkt, consumed, runs>>
uartVars == <<u_pc, u_args, handle_open, u_read, buffer, stdout>>
fnVars   == <<fn_in, fn_out>>
vars     == <<pcapVars, uartVars, fnVars>>

\* ------------------------------------------------------------------ bounds
MaxPkts  == 2      \* packets a capture file holds at most
MaxLimit == 1      \* largest --limit among the runs compared
MaxLines == 3      \* lines the UART log holds at most
MaxIpBytes == 28   \* longest input handed to parse_ipv4 on its own

\* ------------------------------------------------------------ byte strings
\* Python's None, as a record so that it compares with the decoders' tuples
None == [none |-> TRUE]

Take(s, n) == SubSeq(s, 1, IF n < Len(s) THEN n ELSE Len(s))
Drop(s, n) == SubSeq(s, n + 1, Len(s))
Fill(n, v) == [i \in 1..n |-> v]

\* struct.unpack("!H", b[i:i+2]) with the 0-based offset i
u16be(b, i) == b[i + 1] * 256 + b[i + 2]

\* struct pack/unpack of one "I" field under the byte order of the capture
pack32(e, n) ==
    LET b0 == n % 256
        b1 == (n \div 256) % 256
        b2 == (n \div 65536) % 256
        b3 == (n \div 16777216) % 256
    IN  IF e = "<" THEN <<b0, b1, b2, b3>> ELSE <<b3, b2, b1, b0>>

unpack32(e, b) ==
    IF e = "<" THEN b[1] + 256 * b[2] + 65536 * b[3] + 16777216 * b[4]
               ELSE b[4] + 256 * b[3] + 65536 * b[2] + 16777216 * b[1]

\* flags & mask for a one-bit mask
BitSet(x, mask) == (x \div mask) % 2 = 1

\* ---------------------------------------------------------------- decoders
parse_eth(frame) ==
    IF Len(frame) < 14 THEN None
    ELSE [dst |-> SubSeq(frame, 1, 6), src |-> SubSeq(frame, 7, 12),
          ethertype |-> u16be(frame, 12), payload |-> Drop(frame, 14)]

parse_arp(p) ==
    IF Len(p) < 28 THEN None
    ELSE LET htype == u16be(p, 0)
             ptype == u16be(p, 2)
             hlen  == p[5]
             plen  == p[6]
             oper  == u16be(p, 6)
         IN  IF htype # 1 \/ ptype # 2048 \/ hlen # 6 \/ plen # 4 THEN None
             ELSE [oper |-> oper, htype |-> htype,
                   sha |-> SubSeq(p, 9, 14), spa |-> SubSeq(p, 15, 18),
                   tha |-> SubSeq(p, 19, 24), tpa |-> SubSeq(p, 25, 28)]

\* mutant of parse_ipv4: an input of exactly the header length is rejected
parse_ipv4_needs_payload(p) ==
    IF Len(p) < 20 THEN None
    ELSE LET ver_ihl == p[1]
             ver == ver_ihl \div 16
             ihl == (ver_ihl % 16) * 4
         IN  IF ver # 4 \/ ihl < 20 \/ Len(p) <= ihl THEN None
             ELSE [proto |-> p[10], src |-> SubSeq(p, 13, 16),
                   dst |-> SubSeq(p, 17, 20), payload |-> Drop(p, ihl)]

parse_ipv4(p) ==
    IF Len(p) < 20 THEN None
    ELSE LET ver_ihl == p[1]
             ver == ver_ihl \div 16
             ihl == (ver_ihl % 16) * 4
         IN  IF ver # 4 \/ ihl < 20 \/ Len(p) < ihl THEN None
             ELSE [proto |-> p[10], src |-> SubSeq(p, 13, 16),
                   dst |-> SubSeq(p, 17, 20), payload |-> Drop(p, ihl)]

parse_udp(p) ==
    IF Len(p) < 8 THEN None
    ELSE [sport |-> u16be(p, 0), dport |-> u16be(p, 2)]

parse_tcp(p) ==
    IF Len(p) < 20 THEN None
    ELSE LET off == (p[13] \div 16) * 4
         IN  IF off < 20 \/ Len(p) < off THEN None
             ELSE [sport |-> u16be(p, 0), dport |-> u16be(p, 2), flags |-> p[14]]

\* ------------------------------------------------------------- formatting
HexDigits == <<"0", "1", "2", "3", "4", "5", "6", "7",
               "8", "9", "a", "b", "c", "d", "e", "f">>

\* f"{x:02x}"
hex02(x) == <<HexDigits[((x \div 16) % 16) + 1], HexDigits[(x % 16) + 1]>>

RECURSIVE join(_, _)
\* sep.join(parts), as the sequence of the parts with sep between them
join(sep, parts) ==
    IF parts = <<>> THEN <<>>
    ELSE IF Len(parts) = 1 THEN <<parts[1]>>
    ELSE <<parts[1], sep>> \o join(sep, Tail(parts))

mac_str(b) == join(":", [i \in 1..Len(b) |-> hex02(b[i])])

ip_str(b) == join(".", b)

\* ------------------------------------------------------------- summarizer
CounterNames == <<"eth", "arp_req", "arp_rep", "ipv4", "udp",
                  "tcp", "tcp_syn", "tcp_synack", "tcp_rst">>

ZeroCounts == [k \in {CounterNames[i] : i \in 1..Len(CounterNames)} |-> 0]

Inc(s, k) == [s EXCEPT !.counts[k] = @ + 1]

\* mutant of print_limited: the budget test is off by one
print_limited_off_by_one(s, a, line) ==
    IF s.printed <= a.limit
    THEN [s EXCEPT !.out = Append(@, line), !.printed = @ + 1]
    ELSE s

\* if printed < args.limit: print(line); printed += 1
print_limited(s, a, line) ==
    IF s.printed < a.limit
    THEN [s EXCEPT !.out = Append(@, line), !.printed = @ + 1]
    ELSE s

\* the flag names main appends to f, in its order
flag_names(flags) ==
    (IF BitSet(flags, 2) THEN <<"SYN">> ELSE <<>>)
    \o (IF BitSet(flags, 16) THEN <<"ACK">> ELSE <<>>)
    \o (IF BitSet(flags, 4) THEN <<"RST">> ELSE <<>>)

\* mutant of render_flags: the hex fallback is taken only for a zero flags byte
render_flags_zero_only(flags) ==
    LET f == flag_names(flags)
    IN  IF flags # 0 THEN join(",", f) ELSE <<"flags=0x">> \o hex02(flags)

\* fl = ",".join(f) if f else f"flags=0x{flags:02x}"
render_flags(flags) ==
    LET f == flag_names(flags)
    IN  IF f # <<>> THEN join(",", f) ELSE <<"flags=0x">> \o hex02(flags)

\* the port filter of a printed line: dropped when the filter is not empty and
\* neither port is in it
port_filtered(ports, sport, dport) ==
    ports # {} /\ sport \notin ports /\ dport \notin ports

arp_branch(s, a, pay) ==
    LET ar == parse_arp(pay)
    IN  IF ar = None THEN s
        ELSE IF ar.oper = 1
        THEN print_limited(Inc(s, "arp_req"), a,
                 [k |-> "ARP who-has", tpa |-> ip_str(ar.tpa),
                  spa |-> ip_str(ar.spa), sha |-> mac_str(ar.sha)])
        ELSE IF ar.oper = 2
        THEN print_limited(Inc(s, "arp_rep"), a,
                 [k |-> "ARP reply", spa |-> ip_str(ar.spa),
                  sha |-> mac_str(ar.sha)])
        ELSE s

udp_branch(s, a, ip) ==
    LET u == parse_udp(ip.payload)
    IN  IF u = None THEN s
        ELSE LET s1 == Inc(s, "udp")
             IN  IF port_filtered(a.udp_ports, u.sport, u.dport) THEN s1
                 ELSE print_limited(s1, a,
                          [k |-> "UDP", src |-> ip_str(ip.src), sport |-> u.sport,
                           dst |-> ip_str(ip.dst), dport |-> u.dport,
                           len |-> Len(ip.payload)])

\* mutant of tcp_classify: every SYN counts as tcp_syn, the SYN+ACK included
tcp_classify_syn_any(s, flags) ==
    LET syn == BitSet(flags, 2)
        ack == BitSet(flags, 16)
        rst == BitSet(flags, 4)
        s1 == IF syn THEN Inc(s, "tcp_syn") ELSE s
        s2 == IF syn /\ ack THEN Inc(s1, "tcp_synack") ELSE s1
    IN  IF rst THEN Inc(s2, "tcp_rst") ELSE s2

\* lines 187-195: the SYN / SYN-ACK / RST classification
tcp_classify(s, flags) ==
    LET syn == BitSet(flags, 2)
        ack == BitSet(flags, 16)
        rst == BitSet(flags, 4)
        s1 == IF syn /\ ~ack THEN Inc(s, "tcp_syn") ELSE s
        s2 == IF syn /\ ack THEN Inc(s1, "tcp_synack") ELSE s1
    IN  IF rst THEN Inc(s2, "tcp_rst") ELSE s2

\* mutant of tcp_branch: the port filter skips the packet before it is classified
tcp_branch_filter_first(s, a, ip) ==
    LET t == parse_tcp(ip.payload)
    IN  IF t = None THEN s
        ELSE LET s0 == Inc(s, "tcp")
             IN  IF port_filtered(a.tcp_ports, t.sport, t.dport) THEN s0
                 ELSE print_limited(tcp_classify(s0, t.flags), a,
                          [k |-> "TCP", src |-> ip_str(ip.src), sport |-> t.sport,
                           dst |-> ip_str(ip.dst), dport |-> t.dport,
                           fl |-> render_flags(t.flags)])

tcp_branch(s, a, ip) ==
    LET t == parse_tcp(ip.payload)
    IN  IF t = None THEN s
        ELSE LET s1 == tcp_classify(Inc(s, "tcp"), t.flags)
             IN  IF port_filtered(a.tcp_ports, t.sport, t.dport) THEN s1
                 ELSE print_limited(s1, a,
                          [k |-> "TCP", src |-> ip_str(ip.src), sport |-> t.sport,
                           dst |-> ip_str(ip.dst), dport |-> t.dport,
                           fl |-> render_flags(t.flags)])

\* mutant of ipv4_branch: ipv4 is counted before the header is checked
ipv4_branch_count_first(s, a, pay) ==
    LET ip == parse_ipv4(pay)
        s1 == Inc(s, "ipv4")
    IN  IF ip = None THEN s1
        ELSE IF ip.proto = 17 THEN udp_branch(s1, a, ip)
        ELSE IF ip.proto = 6 THEN tcp_branch(s1, a, ip)
        ELSE s1

ipv4_branch(s, a, pay) ==
    LET ip == parse_ipv4(pay)
    IN  IF ip = None THEN s
        ELSE LET s1 == Inc(s, "ipv4")
             IN  IF ip.proto = 17 THEN udp_branch(s1, a, ip)
                 ELSE IF ip.proto = 6 THEN tcp_branch(s1, a, ip)
                 ELSE s1

\* One iteration of main's for loop on the run state s = [counts, printed, out]
\* with the arguments a = [limit, tcp_ports, udp_ports].
loop_body(s, a, data) ==
    LET eth == parse_eth(data)
    IN  IF eth = None THEN s
        ELSE LET s1 == Inc(s, "eth")
             IN  IF eth.ethertype = 2054 THEN arp_branch(s1, a, eth.payload)
                 ELSE IF eth.ethertype # 2048 THEN s1
                 ELSE ipv4_branch(s1, a, eth.payload)

\* print("---") and the nine "name: count" lines
final_report(c) ==
    <<[k |-> "---"]>>
    \o [i \in 1..Len(CounterNames) |-> [k |-> CounterNames[i], v |-> c[CounterNames[i]]]]

\* ---------------------------------------------------------- the file reader
\* iter_pcap up to the first record: the outcome of reading the global header gh
iter_pcap_header(gh) ==
    IF Len(gh) # 24 THEN [t |-> "raise", msg |-> "pcap: short global header"]
    ELSE LET magic == SubSeq(gh, 1, 4)
             e == IF magic = <<212, 195, 178, 161>> THEN "<"
                  ELSE IF magic = <<161, 178, 195, 212>> THEN ">"
                  ELSE "?"
         IN  IF e = "?" THEN [t |-> "raise", msg |-> "pcap: unsupported magic"]
             ELSE IF unpack32(e, SubSeq(gh, 21, 24)) # 1
             THEN [t |-> "raise", msg |-> "pcap: unsupported linktype"]
             ELSE [t |-> "ok", endian |-> e]

\* mutant of iter_pcap_next: a cut record header ends the sequence like EOF
iter_pcap_next_short_is_eof(e, r) ==
    IF Len(r.ph) # 16 THEN [t |-> "stop"]
    ELSE LET incl_len == unpack32(e, SubSeq(r.ph, 9, 12))
             data == Take(r.body, incl_len)
         IN  IF Len(data) # incl_len
             THEN [t |-> "raise", msg |-> "pcap: short packet data"]
             ELSE [t |-> "yield", data |-> data]

\* One turn of iter_pcap's while loop.  r.ph is what f.read(16) returns and
\* r.body the bytes the file holds after it (f.read(incl_len) returns at most
\* incl_len of them).
iter_pcap_next(e, r) ==
    IF r.ph = <<>> THEN [t |-> "stop"]
    ELSE IF Len(r.ph) # 16 THEN [t |-> "raise", msg |-> "pcap: short packet header"]
    ELSE LET incl_len == unpack32(e, SubSeq(r.ph, 9, 12))
             data == Take(r.body, incl_len)
         IN  IF Len(data) # incl_len
             THEN [t |-> "raise", msg |-> "pcap: short packet data"]
             ELSE [t |-> "yield", data |-> data]

\* ------------------------------------------------------------------ inputs
MacA == <<82, 84, 0, 18, 52, 86>>
MacB == <<255, 255, 255, 255, 255, 255>>
IpA  == <<10, 0, 2, 15>>
IpB  == <<10, 0, 2, 2>>

PortA == 34567      \* the TCP port of the --tcp-ports filter
PortB == PortA + 5434
PortU == 37020      \* the UDP port of the --udp-ports filter
PortV == PortU - 31667

b16(n) == <<n \div 256, n % 256>>

Eth(etype, payload) == MacB \o MacA \o b16(etype) \o payload

Arp(htype, ptype, hlen, plen, oper) ==
    b16(htype) \o b16(ptype) \o <<hlen, plen>> \o b16(oper)
    \o MacA \o IpA \o Fill(6, 0) \o IpB

\* an IPv4 header of max(20, ihl*4) bytes followed by l4
Ip(ver_ihl, proto, l4) ==
    <<ver_ihl, 0, 0, 0, 0, 0, 0, 0, 64, proto, 0, 0>> \o IpA \o IpB
    \o Fill(IF (ver_ihl % 16) > 5 THEN ((ver_ihl % 16) - 5) * 4 ELSE 0, 1) \o l4

\* a TCP header of max(20, offnib*4) bytes
Tcp(sport, dport, offnib, flags) ==
    b16(sport) \o b16(dport) \o Fill(8, 0) \o <<offnib * 16, flags>> \o Fill(6, 0)
    \o Fill(IF offnib > 5 THEN (offnib - 5) * 4 ELSE 0, 1)

Udp(sport, dport) == b16(sport) \o b16(dport) \o <<0, 8, 0, 0>>

Frames ==
    { Take(Eth(2048, <<>>), 13),                          \* shorter than an Ethernet header
      Eth(34525, Fill(4, 0)),                             \* IPv6: counted as eth only
      Eth(2054, Arp(1, 2048, 6, 4, 1)),                   \* ARP request
      Eth(2054, Arp(1, 2048, 6, 4, 2)),                   \* ARP reply
      Eth(2054, Arp(1, 2048, 6, 4, 3)),                   \* ARP, another operation
      Eth(2054, Arp(6, 2048, 6, 4, 1)),                   \* ARP, hardware type 6
      Eth(2054, Take(Arp(1, 2048, 6, 4, 1), 27)),         \* ARP, truncated
      Eth(2048, Ip(68, 6, Tcp(PortA, PortB, 5, 2))),      \* ihl = 4
      Eth(2048, Take(Ip(69, 6, <<>>), 19)),               \* IPv4 header truncated
      Eth(2048, Ip(69, 6, <<>>)),                         \* exactly 20 bytes, no payload
      Eth(2048, Ip(69, 1, Fill(8, 0))),                   \* ICMP
      Eth(2048, Ip(69, 17, Udp(PortV, PortU))),           \* UDP, port in the filter
      Eth(2048, Ip(69, 17, Udp(PortV, PortV))),           \* UDP, no port in the filter
      Eth(2048, Ip(69, 17, Take(Udp(PortV, PortU), 7))),  \* UDP truncated
      Eth(2048, Ip(69, 6, Tcp(PortB, PortA, 5, 2))),      \* SYN
      Eth(2048, Ip(69, 6, Tcp(PortA, PortB, 5, 18))),     \* SYN+ACK, port in the filter
      Eth(2048, Ip(69, 6, Tcp(PortB, PortB, 5, 18))),     \* SYN+ACK, no port in the filter
      Eth(2048, Ip(70, 6, Tcp(PortA, PortB, 6, 20))),     \* RST+ACK, IP and TCP options
      Eth(2048, Ip(69, 6, Tcp(PortA, PortB, 5, 1))),      \* FIN
      Eth(2048, Ip(69, 6, Tcp(PortA, PortB, 4, 2)))       \* data offset 16
    }

GlobalHeader(magic, e, network) == magic \o Fill(16, 0) \o pack32(e, network)

GlobalHeaders ==
    { GlobalHeader(<<212, 195, 178, 161>>, "<", 1),
      GlobalHeader(<<161, 178, 195, 212>>, ">", 1),
      GlobalHeader(<<161, 178, 195, 212>>, "<", 1),      \* link type in the other order
      GlobalHeader(<<212, 195, 178, 161>>, "<", 105),
      GlobalHeader(<<77, 60, 178, 161>>, "<", 1),        \* nanosecond pcap
      GlobalHeader(<<10, 13, 13, 10>>, "<", 1),          \* pcapng
      Take(GlobalHeader(<<212, 195, 178, 161>>, "<", 1), 23),
      <<>> }

\* a 16-byte record header announcing n captured bytes
RecordHeader(e, n) == Fill(8, 0) \o pack32(e, n) \o pack32(e, n)

Other(e) == IF e = "<" THEN ">" ELSE "<"

\* What a file whose magic announced the byte order e may hold where a record
\* is expected: nothing, a cut record header, a record holding a frame (the
\* empty one included), a record whose body is cut, a record header written
\* in the other byte order.
RecordReads(e) ==
    {[ph |-> <<>>, body |-> <<>>]}
    \cup {[ph |-> Take(RecordHeader(e, 60), n), body |-> <<>>] : n \in {1, 15}}
    \cup {[ph |-> RecordHeader(e, Len(d)), body |-> d] : d \in Frames \cup {<<>>}}
    \cup {[ph |-> RecordHeader(e, 61), body |-> Fill(60, 0)],
          [ph |-> RecordHeader(Other(e), 60), body |-> Fill(60, 0)]}

DefaultLimit == 120

Args == [limit : (0..MaxLimit) \cup {DefaultLimit},
         tcp_ports : {{}, {PortA}},
         udp_ports : {{}, {PortU}}]

\* --------------------------------------------------------- pcap_summary main
NoRead == [at |-> "none", ph |-> <<>>, body |-> <<>>]

UartIdle ==
    /\ u_pc = "off" /\ u_args = <<>> /\ handle_open = FALSE
    /\ u_read = <<>> /\ buffer = <<>> /\ stdout = <<>>

FnIdle == fn_in = <<>> /\ fn_out = <<>>

\* main after argument parsing, before the generator runs
Init ==
    /\ pc = "start" /\ f_open = FALSE /\ endian = "?" /\ err = ""
    /\ last = NoRead /\ pkt = <<>> /\ consumed = <<>>
    /\ runs = [a \in Args |-> [counts |-> ZeroCounts, printed |-> 0, out |-> <<>>]]
    /\ UartIdle /\ FnIdle

\* the first next() on the generator enters `with open(path, "rb") as f`
OpenFile ==
    /\ pc = "start"
    /\ pc' = "open" /\ f_open' = TRUE
    /\ UNCHANGED <<endian, err, last, pkt, consumed, runs, uartVars, fnVars>>

\* mutant of Fatal: the file is not closed when the error is raised
Fatal_leaves_open(msg) ==
    /\ pc' = "aborted" /\ err' = msg
    /\ UNCHANGED <<f_open, endian, pkt, consumed, runs>>

\* raise SystemExit(msg) inside the with block: the with statement closes the
\* file, the exception leaves the generator and main
Fatal(msg) ==
    /\ pc' = "aborted" /\ err' = msg /\ f_open' = FALSE
    /\ UNCHANGED <<endian, pkt, consumed, runs>>

\* read and check the global header
ReadGlobalHeader ==
    /\ pc = "open"
    /\ \E gh \in GlobalHeaders :
         LET h == iter_pcap_header(gh)
         IN  /\ last' = [at |-> "global", ph |-> gh, body |-> <<>>]
             /\ IF h.t = "raise" THEN Fatal(h.msg)
                ELSE /\ pc' = "loop" /\ endian' = h.endian
                     /\ UNCHANGED <<f_open, err, pkt, consumed, runs>>
    /\ UNCHANGED <<uartVars, fnVars>>

\* the generator is exhausted: the with block is left, the for loop ends and
\* main prints the report
Finish ==
    /\ pc' = "done" /\ f_open' = FALSE
    /\ runs' = [a \in Args |->
                  [runs[a] EXCEPT !.out = @ \o final_report(runs[a].counts)]]
    /\ UNCHANGED <<endian, err, pkt, consumed>>

\* the loop body of main on the packet the generator yielded, for every run
Classify(data) ==
    /\ Len(consumed) < MaxPkts
    /\ pkt' = data /\ consumed' = Append(consumed, data)
    /\ runs' = [a \in Args |-> loop_body(runs[a], a, data)]
    /\ UNCHANGED <<pc, f_open, endian, err>>

\* one iteration of `for pkt in iter_pcap(args.pcap)`
NextRecord ==
    /\ pc = "loop"
    /\ \E r \in RecordReads(endian) :
         LET y == iter_pcap_next(endian, r)
         IN  /\ last' = [at |-> "record", ph |-> r.ph, body |-> r.body]
             /\ IF y.t = "stop" THEN Finish
                ELSE IF y.t = "raise" THEN Fatal(y.msg)
                ELSE Classify(y.data)
    /\ UNCHANGED <<uartVars, fnVars>>

Next == OpenFile \/ ReadGlobalHeader \/ NextRecord

Spec == Init /\ [][Next]_vars

\* ------------------------------------------------ parse_ipv4 called alone
PcapIdle ==
    /\ pc = "off" /\ f_open = FALSE /\ endian = "?" /\ err = ""
    /\ last = NoRead /\ pkt = <<>> /\ consumed = <<>> /\ runs = <<>>

\* first bytes of the inputs: version 4 with ihl 5, 4, 6, 15 and 0, versions 6
\* and 3 with ihl 5, version 0
VerIhls == {69, 68, 70, 79, 64, 101, 53, 5}

\* MaxIpBytes bytes, all different after the first, starting with v
Ipv4Bytes(v) == [i \in 1..MaxIpBytes |-> IF i = 1 THEN v ELSE 100 + i]

Ipv4Inputs == {Take(Ipv4Bytes(v), n) : v \in VerIhls, n \in 0..MaxIpBytes}

InitIpv4 ==
    /\ PcapIdle /\ UartIdle
    /\ fn_in \in [f : {"parse_ipv4"}, p : Ipv4Inputs]
    /\ fn_out = [t |-> "pending"]

Call_parse_ipv4 ==
    /\ fn_out.t = "pending" /\ fn_in.f = "parse_ipv4"
    /\ fn_out' = [t |-> "ret", v |-> parse_ipv4(fn_in.p)]
    /\ UNCHANGED <<fn_in, pcapVars, uartVars>>

NextIpv4 == Call_parse_ipv4

SpecIpv4 == InitIpv4 /\ [][NextIpv4]_vars

\* ------------------------------------- one TCP segment through the loop body
\* main's loop body on one well-formed TCP frame with the given flags byte, no
\* port filter and the default limit: the line it prints
TcpLineArgs == [limit |-> DefaultLimit, tcp_ports |-> {}, udp_ports |-> {}]

InitTcpLine ==
    /\ PcapIdle /\ UartIdle
    /\ fn_in \in [f : {"tcp_line"}, flags : 0..255]
    /\ fn_out = [t |-> "pending"]

PrintTcpLine ==
    /\ fn_out.t = "pending" /\ fn_in.f = "tcp_line"
    /\ fn_out' = [t |-> "ret",
                  v |-> loop_body([counts |-> ZeroCounts, printed |-> 0, out |-> <<>>],
                                  TcpLineArgs,
                                  Eth(2048, Ip(69, 6, Tcp(PortA, PortB, 5, fn_in.flags))))]
    /\ UNCHANGED <<fn_in, pcapVars, uartVars>>

NextTcpLine == PrintTcpLine

SpecTcpLine == InitTcpLine /\ [][NextTcpLine]_vars

\* ================================================================ uart-filter
\* rstrip("\n")
RECURSIVE rstrip_nl(_)
rstrip_nl(s) ==
    IF s # <<>> /\ s[Len(s)] = "\n" THEN rstrip_nl(SubSeq(s, 1, Len(s) - 1)) ELSE s

EndsWithNl(s) == s # <<>> /\ s[Len(s)] = "\n"

decode_escape(line) ==
    LET stripped == rstrip_nl(line)
    IN  IF stripped = <<>> \/ stripped[1] # "E" THEN line
        ELSE IF ~(\A i \in DOMAIN stripped : i % 2 = 1 => stripped[i] = "E") THEN line
        ELSE LET decoded == [i \in 1..(Len(stripped) \div 2) |-> stripped[2 * i]]
             IN  IF EndsWithNl(line) THEN Append(decoded, "\n") ELSE decoded

\* needle in line
Contains(line, needle) ==
    \E i \in 1..(Len(line) - Len(needle) + 1) :
        SubSeq(line, i, i + Len(needle) - 1) = needle

should_keep(line, includes, excludes) ==
    /\ \A i \in DOMAIN includes : Contains(line, includes[i])
    /\ \A i \in DOMAIN excludes : ~Contains(line, excludes[i])

\* [0-9a-fA-F] and the digit's value
HexChars == <<"0", "1", "2", "3", "4", "5", "6", "7", "8", "9",
              "a", "b", "c", "d", "e", "f", "A", "B", "C", "D", "E", "F">>

IsHex(c) == \E i \in DOMAIN HexChars : HexChars[i] = c

HexValue(c) ==
    LET i == CHOOSE j \in DOMAIN HexChars : HexChars[j] = c
    IN  IF i <= 16 THEN i - 1 ELSE i - 7

\* \s
IsSpace(c) == c \in {" ", "\t", "\n", "\r", "\f"}

RECURSIVE int16(_)
\* int(digits, 16)
int16(ds) ==
    IF ds = <<>> THEN 0
    ELSE 16 * int16(SubSeq(ds, 1, Len(ds) - 1)) + HexValue(ds[Len(ds)])

\* the index after the longest run of hex digits ([0-9a-fA-F]+, greedy) that
\* starts at i
HexRunEnd(s, i) ==
    LET stops == {j \in i..Len(s) : ~IsHex(s[j])}
    IN  IF stops = {} THEN Len(s) + 1 ELSE CHOOSE j \in stops : \A k \in stops : j <= k

\* the same for white space (\s+)
SpaceRunEnd(s, i) ==
    LET stops == {j \in i..Len(s) : ~IsSpace(s[j])}
    IN  IF stops = {} THEN Len(s) + 1 ELSE CHOOSE j \in stops : \A k \in stops : j <= k

PatternHead == <<"S", "Y", "S", "C", "A", "L", "L", " ", "a", "7", "=">>
PatternMid  == <<"a", "0", "=">>

StartsAt(s, i, lit) == i + Len(lit) - 1 <= Len(s) /\ SubSeq(s, i, i + Len(lit) - 1) = lit

\* r"SYSCALL a7=([0-9a-fA-F]+)\s+a0=([0-9a-fA-F]+)" matched at index i: the two
\* groups, or None.  Each greedy run is followed by a character outside its
\* class, so the match is the one the greedy runs give.
match_at(s, i) ==
    IF ~StartsAt(s, i, PatternHead) THEN None
    ELSE LET g1 == i + Len(PatternHead)
             e1 == HexRunEnd(s, g1)
             e2 == SpaceRunEnd(s, e1)
             g2 == e2 + Len(PatternMid)
             e3 == HexRunEnd(s, g2)
         IN  IF e1 = g1 \/ e2 = e1 \/ ~StartsAt(s, e2, PatternMid) \/ e3 = g2 THEN None
             ELSE [a7 |-> SubSeq(s, g1, e1 - 1), a0 |-> SubSeq(s, g2, e3 - 1)]

\* pattern.search(line): the match at the leftmost index that has one
pattern_search(line) ==
    LET starts == {i \in DOMAIN line : match_at(line, i) # None}
    IN  IF starts = {} THEN None
        ELSE match_at(line, CHOOSE i \in starts : \A j \in starts : i <= j)

\* chr(a0) for 0x20 <= a0 <= 0x7e; "<grave>" stands for the grave accent 0x60,
\* which a TLA+ string cannot hold
Printable ==
    <<" ", "!", "\"", "#", "$", "%", "&", "'", "(", ")", "*", "+", ",",
      "-", ".", "/", "0", "1", "2", "3", "4", "5", "6", "7", "8", "9", ":",
      ";", "<", "=", ">", "?", "@", "A", "B", "C", "D", "E", "F", "G", "H",
      "I", "J", "K", "L", "M", "N", "O", "P", "Q", "R", "S", "T", "U", "V",
      "W", "X", "Y", "Z", "[", "\\", "]", "^", "_", "<grave>", "a", "b", "c",
      "d", "e", "f", "g", "h", "i", "j", "k", "l", "m", "n", "o", "p", "q",
      "r", "s", "t", "u", "v", "w", "x", "y", "z", "{", "|", "}", "~">>

chr(a0) ==
    IF a0 = 10 THEN "\n" ELSE IF a0 = 13 THEN "\r" ELSE IF a0 = 9 THEN "\t"
    ELSE Printable[a0 - 31]

\* mutant of debug_step: a line end met with an empty buffer yields nothing
debug_step_no_bare_newline(buf, line) ==
    LET match == pattern_search(line)
    IN  IF match = None THEN [yield |-> <<>>, buffer |-> buf]
        ELSE IF int16(match.a7) # 16 THEN [yield |-> <<>>, buffer |-> buf]
        ELSE LET a0 == int16(match.a0) % 256
                 ch == IF (32 <= a0 /\ a0 <= 126) \/ a0 \in {10, 13, 9}
                       THEN <<chr(a0)>> ELSE <<>>
             IN  IF a0 \in {10, 13}
                 THEN (IF buf # <<>>
                       THEN [yield |-> <<Append(buf, "\n")>>, buffer |-> <<>>]
                       ELSE [yield |-> <<>>, buffer |-> <<>>])
                 ELSE IF ch # <<>> THEN [yield |-> <<>>, buffer |-> buf \o ch]
                 ELSE [yield |-> <<>>, buffer |-> buf]

\* One iteration of _iter_debug_stream's loop on `line` with the buffer buf:
\* the chunks it yields and the buffer it leaves.
debug_step(buf, line) ==
    LET match == pattern_search(line)
    IN  IF match = None THEN [yield |-> <<>>, buffer |-> buf]
        ELSE IF int16(match.a7) # 16 THEN [yield |-> <<>>, buffer |-> buf]
        ELSE LET a0 == int16(match.a0) % 256
                 ch == IF (32 <= a0 /\ a0 <= 126) \/ a0 \in {10, 13, 9}
                       THEN <<chr(a0)>> ELSE <<>>
             IN  IF a0 \in {10, 13}
                 THEN (IF buf # <<>>
                       THEN [yield |-> <<Append(buf, "\n")>>, buffer |-> <<>>]
                       ELSE [yield |-> <<<<"\n">>>>, buffer |-> <<>>])
                 ELSE IF ch # <<>> THEN [yield |-> <<>>, buffer |-> buf \o ch]
                 ELSE [yield |-> <<>>, buffer |-> buf]

\* after the loop: if buffer: yield "".join(buffer)
debug_flush(buf) == IF buf # <<>> THEN <<buf>> ELSE <<>>

\* ------------------------------------------------------------------ inputs
\* putc 'A'
LineA ==
    <<"S", "Y", "S", "C", "A", "L", "L", " ", "a", "7", "=", "1", "0", " ",
      "a", "0", "=", "4", "1", "\n">>
\* putc newline
LineNl ==
    <<"S", "Y", "S", "C", "A", "L", "L", " ", "a", "7", "=", "1", "0", " ",
      "a", "0", "=", "0", "a", "\n">>
\* putc carriage return
LineCr ==
    <<"S", "Y", "S", "C", "A", "L", "L", " ", "a", "7", "=", "1", "0", " ",
      "a", "0", "=", "d", "\n">>
\* putc tab
LineTab ==
    <<"S", "Y", "S", "C", "A", "L", "L", " ", "a", "7", "=", "1", "0", " ",
      "a", "0", "=", "9", "\n">>
\* a7 with a leading zero, a0 = 0x142: putc 'B'
LineB ==
    <<"S", "Y", "S", "C", "A", "L", "L", " ", "a", "7", "=", "0", "1", "0",
      "\t", " ", "a", "0", "=", "1", "4", "2", " ", "x", "\n">>
\* putc 0x7f, not printable
LineDel ==
    <<"S", "Y", "S", "C", "A", "L", "L", " ", "a", "7", "=", "1", "0", " ",
      "a", "0", "=", "7", "F", "\n">>
\* another syscall
LineOther ==
    <<"S", "Y", "S", "C", "A", "L", "L", " ", "a", "7", "=", "1", "1", " ",
      "a", "0", "=", "4", "1", "\n">>
\* the pattern matches at its second start: putc 'o'
LineTwice ==
    <<"o", "k", " ", "S", "Y", "S", "C", "A", "L", "L", " ", "a", "7", "=",
      "1", " ", "S", "Y", "S", "C", "A", "L", "L", " ", "a", "7", "=", "1",
      "0", " ", "a", "0", "=", "6", "f", "\n">>
\* LineA in the probe encoding
LineEscA ==
    <<"E", "S", "E", "Y", "E", "S", "E", "C", "E", "A", "E", "L", "E", "L",
      "E", " ", "E", "a", "E", "7", "E", "=", "E", "1", "E", "0", "E", " ",
      "E", "a", "E", "0", "E", "=", "E", "4", "E", "1", "\n">>
\* a log line
LineInit ==
    <<"i", "n", "i", "t", ":", " ", "o", "k", "\n">>
\* "init" in the probe encoding
LineEscInit ==
    <<"E", "i", "E", "n", "E", "i", "E", "t", "\n">>
\* "ok" in the probe encoding, the file ending without a newline
LineEscOk ==
    <<"E", "o", "E", "k">>

InputLines == {LineA, LineNl, LineCr, LineTab, LineB, LineDel, LineOther,
               LineTwice, LineEscA, LineInit, LineEscInit, LineEscOk}

NeedleInit == <<"i", "n", "i", "t">>
NeedleOk   == <<"o", "k">>

UartArgs ==
    [strip_escape : BOOLEAN, extract_debug_putc : BOOLEAN,
     filters : {[grep |-> <<NeedleInit, NeedleOk>>, exclude |-> <<>>],
                [grep |-> <<>>, exclude |-> <<NeedleOk>>]}]

\* ------------------------------------------------------------ uart-filter main
\* main inside its try block: the arguments parsed, the input file open
InitUart ==
    /\ PcapIdle /\ FnIdle
    /\ u_pc = "run" /\ u_args \in UartArgs /\ handle_open = TRUE
    /\ u_read = <<>> /\ buffer = <<>> /\ stdout = <<>>

\* _iter_lines: the line handed on for the raw line read
iter_line(raw) == IF u_args.strip_escape THEN decode_escape(raw) ELSE raw

\* The handle yields one more line; only the last line of a file can lack its
\* newline.  The line goes through _iter_lines and then through the extractor
\* or the filter, and what comes out is written to stdout.
ReadLine ==
    /\ u_pc = "run" /\ Len(u_read) < MaxLines
    /\ IF u_read = <<>> THEN TRUE ELSE EndsWithNl(u_read[Len(u_read)])
    /\ \E raw \in InputLines :
         LET line == iter_line(raw)
         IN  /\ u_read' = Append(u_read, raw)
             /\ IF u_args.extract_debug_putc
                THEN LET d == debug_step(buffer, line)
                     IN  /\ stdout' = stdout \o d.yield
                         /\ buffer' = d.buffer
                ELSE /\ stdout' = IF should_keep(line, u_args.filters.grep,
                                                 u_args.filters.exclude)
                                  THEN Append(stdout, line) ELSE stdout
                     /\ UNCHANGED buffer
    /\ UNCHANGED <<u_pc, u_args, handle_open, pcapVars, fnVars>>

\* The handle is exhausted: the extractor flushes its buffer, the finally
\* clause closes the handle and main returns 0.
EndOfInput ==
    /\ u_pc = "run"
    /\ u_pc' = "done" /\ handle_open' = FALSE
    /\ IF u_args.extract_debug_putc
       THEN stdout' = stdout \o debug_flush(buffer) /\ buffer' = <<>>
       ELSE UNCHANGED <<stdout, buffer>>
    /\ UNCHANGED <<u_args, u_read, pcapVars, fnVars>>

NextUart == ReadLine \/ EndOfInput

SpecUart == InitUart /\ [][NextUart]_vars

\* ====================================================== claims, pcap_summary
DetailKinds == {"ARP who-has", "ARP reply", "UDP", "TCP"}

DetailLines(o) == SelectSeq(o, LAMBDA l : l.k \in DetailKinds)
ReportLines(o) == SelectSeq(o, LAMBDA l : l.k \notin DetailKinds)

SameFilters(a, b) == a.tcp_ports = b.tcp_ports /\ a.udp_ports = b.udp_ports

\* the run with the same filters and the default limit, which no capture of
\* the model reaches
Unlimited(a) == [a EXCEPT !.limit = DefaultLimit]

\* C1: the nine counters (and the report printed from them) are the same for
\* every pair of --limit values with the same filters; a run prints exactly
\* the first `limit` detail lines of what the unlimited run prints, so never
\* more than `limit` lines, and none with --limit 0.
C1_LimitBoundsOnlyLines ==
    \A a \in Args :
        /\ \A b \in Args : SameFilters(a, b) =>
               /\ runs[a].counts = runs[b].counts
               /\ ReportLines(runs[a].out) = ReportLines(runs[b].out)
        /\ DetailLines(runs[a].out)
               = Take(DetailLines(runs[Unlimited(a)].out), a.limit)
        /\ Len(DetailLines(runs[a].out)) <= a.limit
        /\ a.limit = 0 => DetailLines(runs[a].out) = <<>>
        /\ pc = "done" => ReportLines(runs[a].out) = final_report(runs[a].counts)

\* C1 witness: a finished run on two printable packets, where --limit 0 printed
\* nothing and --limit MaxLimit cut the output, with non-zero counters
C1_Witness ==
    /\ pc = "done"
    /\ \E a \in Args :
          /\ a.limit = 0 /\ runs[a].counts["eth"] = MaxPkts
          /\ runs[a].counts["tcp"] > 0
          /\ Len(DetailLines(runs[Unlimited(a)].out)) > MaxLimit
          /\ Len(DetailLines(runs[[a EXCEPT !.limit = MaxLimit]].out)) = MaxLimit

\* the TCP segment of a frame that decodes down to TCP, None otherwise
DecodedTcp(d) ==
    LET eth == parse_eth(d)
    IN  IF eth = None THEN None
        ELSE IF eth.ethertype # 2048 THEN None
        ELSE LET ip == parse_ipv4(eth.payload)
             IN  IF ip = None THEN None
                 ELSE IF ip.proto # 6 THEN None
                 ELSE parse_tcp(ip.payload)

IsSynAck(d) == DecodedTcp(d) # None /\ DecodedTcp(d).flags = 18

TcpCounters == {"tcp", "tcp_syn", "tcp_synack", "tcp_rst"}

\* a step of the loop that classified the packet pkt'
Classified == consumed' = Append(consumed, pkt')

C2_SynAckStep ==
    (Classified /\ IsSynAck(pkt')) =>
        \A a \in Args :
            LET t == DecodedTcp(pkt')
                new == SubSeq(runs'[a].out, Len(runs[a].out) + 1, Len(runs'[a].out))
            IN  /\ runs'[a].counts["tcp"] = runs[a].counts["tcp"] + 1
                /\ runs'[a].counts["tcp_synack"] = runs[a].counts["tcp_synack"] + 1
                /\ (new # <<>>) =>
                      /\ Len(new) = 1 /\ new[1].k = "TCP"
                      /\ new[1].fl = <<"SYN", ",", "ACK">>
                      /\ (a.tcp_ports = {} \/ t.sport \in a.tcp_ports
                                           \/ t.dport \in a.tcp_ports)

C2_SameTcpCounters ==
    \A a, b \in Args : \A k \in TcpCounters : runs[a].counts[k] = runs[b].counts[k]

\* C2: a decoded SYN+ACK segment increments tcp and tcp_synack in every run,
\* whatever its --tcp-ports, and a run prints it (as TCP ... SYN,ACK) only if
\* its filter is empty or holds one of the two ports; the four TCP counters are
\* the same for every choice of --tcp-ports.
C2_TcpCountersIgnoreFilter == [][C2_SynAckStep]_vars /\ []C2_SameTcpCounters

\* C2 witness: the packet just classified is a SYN+ACK with no port in the
\* filter, counted by the filtered run but printed only by the unfiltered one
C2_Witness ==
    /\ consumed # <<>> /\ IsSynAck(pkt)
    /\ \E a, b \in Args :
          /\ a.limit = DefaultLimit /\ b.limit = DefaultLimit
          /\ a.tcp_ports # {} /\ b.tcp_ports = {} /\ a.udp_ports = b.udp_ports
          /\ runs[a].counts["tcp_synack"] = 1
          /\ ~(\E i \in DOMAIN runs[a].out : runs[a].out[i].k = "TCP")
          /\ \E i \in DOMAIN runs[b].out : runs[b].out[i].k = "TCP"

Separators(o) == Cardinality({i \in DOMAIN o : o[i].k = "---"})

\* the record header read last announces more bytes than the file holds
BodyCut == Len(last.ph) = 16
           /\ Len(last.body) < unpack32(endian, SubSeq(last.ph, 9, 12))

BadGlobalHeader ==
    \/ Len(last.ph) < 24
    \/ SubSeq(last.ph, 1, 4) \notin {<<212, 195, 178, 161>>, <<161, 178, 195, 212>>}
    \/ (IF last.ph[1] = 212 THEN last.ph[21] + 256 * last.ph[22]
                                  + 65536 * last.ph[23] + 16777216 * last.ph[24]
                             ELSE last.ph[24] + 256 * last.ph[23]
                                  + 65536 * last.ph[22] + 16777216 * last.ph[21]) # 1

C3_Outcomes ==
    /\ (last.at = "record" /\ last.ph = <<>>) =>
           /\ pc = "done" /\ err = ""
           /\ \A a \in Args : Separators(runs[a].out) = 1
    /\ (last.at = "record" /\ Len(last.ph) \in 1..15) => pc = "aborted"
    /\ (last.at = "record" /\ BodyCut) => pc = "aborted"
    /\ (last.at = "global" /\ BadGlobalHeader) => pc = "aborted"
    /\ pc = "aborted" =>
           /\ err # ""
           /\ \A a \in Args : Separators(runs[a].out) = 0
    /\ pc \in {"start", "open", "loop"} => \A a \in Args : Separators(runs[a].out) = 0

\* C3: zero bytes where a record header is expected end the run normally with
\* exactly one report; a record header of 1..15 bytes, a cut packet body, a
\* short global header, an unknown magic or a link type other than 1 abort the
\* run: nothing is read or classified afterwards and no report is printed.
C3_FatalVersusEof == []C3_Outcomes /\ [][pc = "aborted" => UNCHANGED vars]_vars

\* C3 witness: a run aborted by a cut record header after a packet was counted
C3_Witness ==
    /\ pc = "aborted" /\ last.at = "record" /\ Len(last.ph) = 15
    /\ consumed # <<>>
    /\ \E a \in Args : runs[a].counts["eth"] > 0 /\ runs[a].printed > 0

\* The layer at which a frame fails to decode: "eth" (shorter than 14 bytes),
\* "l3" (bad ARP message or bad IPv4 header), "l4" (UDP or TCP segment that
\* does not decode), "none" when every decoder the frame reaches succeeds.
FailedLayer(d) ==
    LET eth == parse_eth(d)
    IN  IF eth = None THEN "eth"
        ELSE IF eth.ethertype = 2054
        THEN (IF parse_arp(eth.payload) = None THEN "l3" ELSE "none")
        ELSE IF eth.ethertype # 2048 THEN "none"
        ELSE LET ip == parse_ipv4(eth.payload)
             IN  IF ip = None THEN "l3"
                 ELSE IF ip.proto = 17 /\ parse_udp(ip.payload) = None THEN "l4"
                 ELSE IF ip.proto = 6 /\ parse_tcp(ip.payload) = None THEN "l4"
                 ELSE "none"

\* the counters a frame that fails at the given layer increments
CountedBefore(layer) ==
    IF layer = "eth" THEN {} ELSE IF layer = "l3" THEN {"eth"} ELSE {"eth", "ipv4"}

C4_SkipStep ==
    (Classified /\ FailedLayer(pkt') # "none") =>
        LET counted == CountedBefore(FailedLayer(pkt'))
        IN  /\ pc' = "loop" /\ err' = "" /\ f_open'
            /\ \A a \in Args :
                  /\ runs'[a].printed = runs[a].printed
                  /\ runs'[a].out = runs[a].out
                  /\ runs'[a].counts =
                        [k \in DOMAIN ZeroCounts |->
                            runs[a].counts[k] + (IF k \in counted THEN 1 ELSE 0)]

RECURSIVE Replay(_, _)
\* main's locals after the loop ran over the packets ps, for the arguments a
Replay(ps, a) ==
    IF ps = <<>> THEN [counts |-> ZeroCounts, printed |-> 0, out |-> <<>>]
    ELSE loop_body(Replay(SubSeq(ps, 1, Len(ps) - 1), a), a, ps[Len(ps)])

Decodable(ps) == SelectSeq(ps, LAMBDA d : FailedLayer(d) = "none")

Skipped(ps, k) ==
    Cardinality({i \in DOMAIN ps : FailedLayer(ps[i]) # "none"
                                    /\ k \in CountedBefore(FailedLayer(ps[i]))})

\* the run is what it would be on the capture without its undecodable packets,
\* but for their eth / ipv4 counts
\* (the quantifiers over one-element sets name a value that is computed once)
C4_AsIfAbsent ==
    \A good \in {Decodable(consumed)} :
    \A extra \in {[k \in DOMAIN ZeroCounts |-> Skipped(consumed, k)]} :
    \A a \in Args :
    \A r \in {Replay(good, a)} :
        /\ runs[a].printed = r.printed
        /\ DetailLines(runs[a].out) = r.out
        /\ runs[a].counts = [k \in DOMAIN ZeroCounts |-> r.counts[k] + extra[k]]

\* C4: a packet that fails a layer-specific decode is skipped without aborting:
\* a frame shorter than 14 bytes changes no counter, a bad ARP message or IPv4
\* header increments eth only, an undecodable UDP/TCP segment eth and ipv4 only;
\* the print budget and the output are unchanged, and the later packets are
\* classified as if the packet were absent.
C4_SoftMissSkipped == [][C4_SkipStep]_vars /\ []C4_AsIfAbsent

\* C4 witness: a finished run whose first packet was undecodable at the
\* transport layer and whose second packet was decoded and printed
C4_Witness ==
    /\ pc = "done" /\ Len(consumed) = 2
    /\ FailedLayer(consumed[1]) = "l4" /\ FailedLayer(consumed[2]) = "none"
    /\ \E a \in Args : /\ runs[a].printed = 1
                        /\ runs[a].counts["ipv4"] = 2
                        /\ runs[a].counts["udp"] + runs[a].counts["tcp"] = 1

\* C5: the file opened by iter_pcap is closed on every exit path: after normal
\* exhaustion and after each of the five fatal errors no terminated run leaves
\* it open.
C5_FileClosedOnExit == pc \in {"done", "aborted"} => ~f_open

\* C5 witness: a run that terminated on a cut packet body, the file having been
\* open while packets were read
C5_Witness ==
    /\ pc = "aborted" /\ err = "pcap: short packet data"
    /\ consumed # <<>> /\ ~f_open

C10_Layering ==
    \A a \in Args :
        LET c == runs[a].counts
        IN  /\ c["arp_req"] + c["arp_rep"] + c["ipv4"] <= c["eth"]
            /\ c["udp"] + c["tcp"] <= c["ipv4"]
            /\ c["tcp_syn"] + c["tcp_synack"] <= c["tcp"]
            /\ c["tcp_rst"] <= c["tcp"]

C10_Step ==
    \A a \in Args :
        LET c == runs[a].counts
            n == runs'[a].counts
            d == [k \in DOMAIN ZeroCounts |-> n[k] - c[k]]
        IN  /\ \A k \in DOMAIN ZeroCounts : d[k] >= 0
            /\ \A k \in {"eth", "ipv4", "udp", "tcp"} : d[k] <= 1
            /\ ~(d["arp_req"] + d["arp_rep"] > 0 /\ d["ipv4"] > 0)
            /\ ~(d["udp"] > 0 /\ d["tcp"] > 0)
            /\ ~(d["tcp_syn"] > 0 /\ d["tcp_synack"] > 0)

\* C10: after any prefix of the packets, arp_req + arp_rep + ipv4 <= eth,
\* udp + tcp <= ipv4, tcp_syn + tcp_synack <= tcp and tcp_rst <= tcp; a packet
\* increments eth, ipv4, udp and tcp by at most one, never an ARP counter and
\* ipv4 together, nor udp and tcp, nor tcp_syn and tcp_synack, and no counter
\* ever decreases.
C10_CounterLayering == []C10_Layering /\ [][C10_Step]_vars

\* C10 witness: two packets were classified and a TCP counter under each bound
\* is non-zero
C10_Witness ==
    /\ Len(consumed) = 2
    /\ \E a \in Args : /\ runs[a].counts["tcp_synack"] = 1
                        /\ runs[a].counts["tcp_rst"] = 1
                        /\ runs[a].counts["tcp"] = 2

\* ============================================================ claims, parse_ipv4
\* C7: parse_ipv4 returns no value exactly when fewer than 20 bytes are
\* captured, the version nibble is not 4, ihl*4 < 20 or the input is shorter
\* than ihl*4; otherwise its payload is the input from offset ihl*4 to the end.
\* So version 4, ihl 5 and exactly 20 bytes parse with an empty payload, and
\* ihl 4 is rejected whatever the length.
C7_ParseIpv4 ==
    fn_out.t = "ret" =>
        LET p == fn_in.p
            n == Len(p)
            v == IF n > 0 THEN p[1] ELSE 0
            hl == (v % 16) * 4
            rejected == n < 20 \/ v \div 16 # 4 \/ hl < 20 \/ n < hl
        IN  /\ (fn_out.v = None) <=> rejected
            /\ ~rejected =>
                  /\ Len(fn_out.v.payload) = n - hl
                  /\ \A i \in 1..(n - hl) : fn_out.v.payload[i] = p[hl + i]
            /\ (v = 69 /\ n = 20) => (fn_out.v # None /\ fn_out.v.payload = <<>>)
            /\ (v = 68) => fn_out.v = None

\* C7 witness: the header of exactly 20 bytes with ihl 5 was parsed
C7_Witness ==
    /\ fn_out.t = "ret" /\ fn_in.f = "parse_ipv4"
    /\ Len(fn_in.p) = 20 /\ fn_in.p[1] = 69
    /\ fn_out.v # None

\* ======================================================= claims, the TCP line
TcpFlagBits == <<[bit |-> 1, name |-> "FIN"], [bit |-> 2, name |-> "SYN"],
                 [bit |-> 4, name |-> "RST"], [bit |-> 8, name |-> "PSH"],
                 [bit |-> 16, name |-> "ACK"], [bit |-> 32, name |-> "URG"],
                 [bit |-> 64, name |-> "ECE"], [bit |-> 128, name |-> "CWR"]>>

IsHexFallback(fl) == fl # <<>> /\ fl[1] = "flags=0x"

Names(fl) == {fl[i] : i \in DOMAIN fl} \ {","}

PrintedFl == fn_out.v.out[1].fl

\* C8 as stated: the names rendered are those of the flags that are set, and
\* the hex fallback is used only when no flag bit is set
C8_AsStated ==
    (fn_out.t = "ret" /\ fn_in.f = "tcp_line") =>
        /\ Len(fn_out.v.out) = 1
        /\ IsHexFallback(PrintedFl) <=> fn_in.flags = 0
        /\ ~IsHexFallback(PrintedFl) =>
              Names(PrintedFl) = {TcpFlagBits[i].name : i \in
                                    {j \in DOMAIN TcpFlagBits :
                                        (fn_in.flags \div TcpFlagBits[j].bit) % 2 = 1}}

\* C8, amended: the names rendered are those of SYN (0x02), ACK (0x10) and RST
\* (0x04) that are set, in this order and joined by commas; the other five bits
\* are not rendered, and flags=0x%02x is printed exactly when none of the
\* three bits is set.
C8_ThreeFlagsRendered ==
    (fn_out.t = "ret" /\ fn_in.f = "tcp_line") =>
        LET x == fn_in.flags
            syn == x % 4 >= 2
            ack == x % 32 >= 16
            rst == x % 8 >= 4
        IN  /\ Len(fn_out.v.out) = 1 /\ fn_out.v.out[1].k = "TCP"
            /\ PrintedFl =
                 (CASE syn /\ ack /\ rst -> <<"SYN", ",", "ACK", ",", "RST">>
                    [] syn /\ ack /\ ~rst -> <<"SYN", ",", "ACK">>
                    [] syn /\ ~ack /\ rst -> <<"SYN", ",", "RST">>
                    [] syn /\ ~ack /\ ~rst -> <<"SYN">>
                    [] ~syn /\ ack /\ rst -> <<"ACK", ",", "RST">>
                    [] ~syn /\ ack /\ ~rst -> <<"ACK">>
                    [] ~syn /\ ~ack /\ rst -> <<"RST">>
                    [] OTHER -> <<"flags=0x", HexDigits[(x \div 16) + 1],
                                  HexDigits[(x % 16) + 1]>>)

\* C8 witness: a FIN+PSH segment (0x09) was printed with the hex fallback
C8_Witness ==
    /\ fn_out.t = "ret" /\ fn_in.f = "tcp_line" /\ fn_in.flags = 9
    /\ PrintedFl = <<"flags=0x", "0", "9">>

\* ============================================================ claims, uart-filter
\* C6 as stated: in every mode each chunk written to stdout holds every --grep
\* substring and no --exclude substring
C6_FiltersAlwaysApplied ==
    \A i \in DOMAIN stdout :
        /\ \A g \in DOMAIN u_args.filters.grep :
              Contains(stdout[i], u_args.filters.grep[g])
        /\ \A x \in DOMAIN u_args.filters.exclude :
              ~Contains(stdout[i], u_args.filters.exclude[x])

RECURSIVE Flatten(_)
\* "".join(chunks)
Flatten(chunks) ==
    IF chunks = <<>> THEN <<>> ELSE chunks[1] \o Flatten(Tail(chunks))

\* what one input line contributes to the extracted text: nothing unless it
\* matches the pattern with a7 = 0x10; then one "\n" for a0 & 0xFF = newline or
\* carriage return, the character itself for a tab or printable ASCII, nothing
\* for any other byte
Accepted(line) ==
    LET m == pattern_search(line)
    IN  IF m = None THEN <<>>
        ELSE LET low == int16(m.a0) % 256
             IN  IF int16(m.a7) # 16 THEN <<>>
                 ELSE IF low = 10 \/ low = 13 THEN <<"\n">>
                 ELSE IF low = 9 THEN <<"\t">>
                 ELSE IF low >= 32 /\ low <= 126 THEN <<Printable[low - 31]>>
                 ELSE <<>>

\* the lines _iter_debug_stream was given so far
LinesGiven ==
    [i \in DOMAIN u_read |->
        IF u_args.strip_escape THEN decode_escape(u_read[i]) ELSE u_read[i]]

\* C9: the text yielded (and written) so far followed by the buffered
\* characters is the accepted characters in input order, each newline or
\* carriage return giving one "\n"; every chunk yielded before the end of the
\* input is one line ended by its only "\n" (a bare "\n" when nothing was
\* buffered); at the end of the input the buffered characters are flushed once
\* without a newline, and nothing is lost, duplicated or reordered.
C9_DebugStreamOrder ==
    (u_pc # "off" /\ u_args.extract_debug_putc) =>
        /\ Flatten(stdout) \o buffer = Flatten([i \in DOMAIN u_read |-> Accepted(LinesGiven[i])])
        /\ \A i \in DOMAIN buffer : buffer[i] # "\n"
        /\ u_pc = "done" => buffer = <<>>
        /\ \A i \in DOMAIN stdout :
              /\ stdout[i] # <<>>
              /\ \A j \in 1..(Len(stdout[i]) - 1) : stdout[i][j] # "\n"
              /\ ~EndsWithNl(stdout[i]) => (i = Len(stdout) /\ u_pc = "done")

\* C9 witness: "A", carriage return, "A" were extracted from three lines, one
\* of them in the probe encoding: a line "A\n" and the flushed rest "A"
C9_Witness ==
    /\ u_pc = "done" /\ u_args.extract_debug_putc /\ u_args.strip_escape
    /\ u_read = <<LineEscA, LineCr, LineA>>
    /\ stdout = <<<<"A", "\n">>, <<"A">>>>

====
